---- MODULE Spec2Model ----
(***************************************************************************)
(* Phone2PC cursor controller (src/pc_receiver/cursor_controller.py).      *)
(*                                                                         *)
(* One CursorController object, the three threads that start() leaves      *)
(* running (main/control, _listen_loop, _status_monitor), the host pointer *)
(* (pyautogui) and the datagram socket.                                    *)
(*                                                                         *)
(* Python floats are modelled as exact rationals <<n, d>> (d > 0, lowest   *)
(* terms): the literals 0.1, 0.7, 0.9, 5.0 are the rationals they denote.  *)
(* A thread's step is the stretch of code between two accesses to state    *)
(* another thread also reads or writes.                                    *)
(***************************************************************************)
EXTENDS Integers, Sequences, FiniteSets, TLC

VARIABLES
    socket,            \* self.socket: "none" | "created" | "open" | "closed"
    is_running,        \* self.is_running
    connected_clients, \* self.connected_clients (set of sender IPs)
    sensitivity,       \* self.sensitivity
    smoothing_factor,  \* self.smoothing_factor
    smoothed_dx,       \* self.smoothed_dx
    smoothed_dy,       \* self.smoothed_dy
    last_motion_time,  \* self.last_motion_time (seconds since construction)
    motion_count,      \* self.motion_count
    avg_latency,       \* self.avg_latency
    screen,            \* pyautogui.size(): <<W, H>>
    cursor,            \* pyautogui.position(): <<x, y>>
    main_pc,           \* position of the main thread (main / start / stop)
    listen_pc,         \* position of the _listen_loop thread
    monitor_pc,        \* position of the _status_monitor thread
    disc_ip,           \* _process_packet: client_ip between add and discard
    count_tmp,         \* _handle_motion_data: motion_count loaded by "+= 1"
    motions_left,      \* well-formed MOTION packets still to arrive
    status_call,       \* get_status: the caller's position and the dict so far
    event              \* what the last step did: packet handled, line logged, ...

vars == <<socket, is_running, connected_clients, sensitivity, smoothing_factor,
          smoothed_dx, smoothed_dy, last_motion_time, motion_count, avg_latency,
          screen, cursor, main_pc, listen_pc, monitor_pc, disc_ip, count_tmp,
          motions_left, status_call, event>>

\* ------------------------------------------------------------------ bounds

\* Well-formed MOTION packets a behaviour of Spec receives.
MaxMotions == 2

\* Well-formed MOTION packets a behaviour of ThreadSpec receives.
MaxThreadMotions == 2

\* Well-formed MOTION packets a behaviour of FilterSpec receives.
MaxFilterMotions == 2

\* Well-formed MOTION packets a behaviour of DecaySpec receives.
MaxDecayMotions == 3

\* Well-formed MOTION packets a behaviour of StatusSpec receives.
MaxStatusMotions == 1

\* ------------------------------------------------------- float arithmetic

Abs(n) == IF n < 0 THEN -n ELSE n

RECURSIVE GCD(_, _)
GCD(a, b) == IF b = 0 THEN a ELSE GCD(b, a % b)

\* The rational n/d (d > 0) in lowest terms.
Norm(n, d) == LET g == GCD(Abs(n), d) IN IF n = 0 THEN <<0, 1>> ELSE <<n \div g, d \div g>>

R(n) == <<n, 1>>
RAdd(a, b) == Norm(a[1] * b[2] + b[1] * a[2], a[2] * b[2])
RSub(a, b) == Norm(a[1] * b[2] - b[1] * a[2], a[2] * b[2])
RMul(a, b) == Norm(a[1] * b[1], a[2] * b[2])
RLt(a, b) == a[1] * b[2] < b[1] * a[2]
RLe(a, b) == a[1] * b[2] <= b[1] * a[2]

\* Python's max(a, b) and min(a, b) on floats: the first argument unless the
\* second is strictly greater (smaller).
PyMax(a, b) == IF RLt(a, b) THEN b ELSE a
PyMin(a, b) == IF RLt(b, a) THEN b ELSE a

\* Python's int(x) on a float: truncation toward zero.
PyInt(r) == IF r[1] >= 0 THEN r[1] \div r[2] ELSE -((-r[1]) \div r[2])

IntMax(a, b) == IF a < b THEN b ELSE a
IntMin(a, b) == IF b < a THEN b ELSE a

\* ---------------------------------------------------------- wire protocol

\* A datagram payload: bytes that are empty, not valid UTF-8, or a text. A text
\* is held as its leading tag (up to and including the first colon; the whole
\* text when it has no colon) and the comma-separated pieces after the tag.
EmptyData == [kind |-> "empty", prefix |-> "", fields |-> <<>>]
BadUtf8 == [kind |-> "bad_utf8", prefix |-> "", fields |-> <<>>]
Text(prefix, fields) == [kind |-> "text", prefix |-> prefix, fields |-> fields]

Payloads ==
    { Text("MOTION:", <<"10", "0">>),
      Text("MOTION:", <<"-50", "-50">>),
      Text("MOTION:", <<"abc", "1">>),
      Text("MOTION:", <<"1", "2", "3">>),
      Text("CONNECT:", <<"hello">>),
      Text("DISCONNECT:", <<"bye">>),
      Text("HEARTBEAT:", <<"1">>),
      Text("PING:", <<"1">>),
      Text("hello", <<>>),
      BadUtf8,
      EmptyData }

IPs == {"1.2.3.4", "5.6.7.8"}

\* bytes.decode('utf-8') succeeds.
Decodes(data) == data.kind = "text"

\* float(s): the strings of the payloads above that Python parses as a number.
IsFloat(s) == s \in {"10", "0", "-50", "1", "2", "3"}
FloatOf(s) ==
    CASE s = "10" -> R(10)
      [] s = "0" -> R(0)
      [] s = "-50" -> R(-50)
      [] s = "1" -> R(1)
      [] s = "2" -> R(2)
      [] s = "3" -> R(3)

\* message.startswith(tag)
StartsWith(data, tag) == data.prefix = tag

\* "dx_str, dy_str = motion_part.split(',')" then float() of both: whether
\* neither raises ValueError.
MotionParses(data) ==
    /\ Len(data.fields) = 2
    /\ IsFloat(data.fields[1])
    /\ IsFloat(data.fields[2])

WellFormedMotion(data) ==
    Decodes(data) /\ StartsWith(data, "MOTION:") /\ MotionParses(data)

\* --------------------------------------------------------- motion filter

\* A sample that is not scaled.
ScaleIgnored(d, sens) == d

\* dx *= self.sensitivity
Scale(d, sens) == RMul(d, sens)

\* A filter that keeps its previous state.
SmoothStale(prev, d, sf) == prev

\* A filter that adds the weighted sample to an undamped previous state.
SmoothUndamped(prev, d, sf) == RAdd(prev, RMul(RSub(R(1), sf), d))

\* smoothing_factor * smoothed + (1 - smoothing_factor) * d
Smooth(prev, d, sf) == RAdd(RMul(sf, prev), RMul(RSub(R(1), sf), d))

\* -------------------------------------------------------- screen actuator

\* The clamp without its lower bound.
ClampCoordNoFloor(new, size) == IntMin(new, size - 1)

\* max(0, min(new, size - 1))
ClampCoord(new, size) == IntMax(0, IntMin(new, size - 1))

\* int(current + d), clamped to the screen
MoveTarget(current, d, size) == ClampCoord(PyInt(RAdd(R(current), d)), size)

\* ----------------------------------------------------- configuration setters

\* The clamp without its lower bound.
ClampSensitivityNoFloor(v) == PyMin(R(5), v)

\* max(0.1, min(5.0, sensitivity))
ClampSensitivity(v) == PyMax(<<1, 10>>, PyMin(R(5), v))

\* max(0.0, min(1.0, smoothing))
ClampSmoothing(v) == PyMax(R(0), PyMin(R(1), v))

\* Arguments the setters are called with: below, inside and above the range.
SensitivityArgs == {R(-3), R(1), R(9)}
SmoothingArgs == {<<-1, 2>>, <<7, 10>>, R(2)}

\* ------------------------------------------------------------ host and time

\* (screen size, pointer position) the host starts in.
Hosts == { <<<<1, 1>>, <<0, 0>>>>,
           <<<<800, 600>>, <<0, 0>>>>,
           <<<<1920, 1080>>, <<100, 100>>>> }

\* Seconds between two reads of time.time() by the ingestion thread.
Gaps == {1, 2}

\* time.sleep(5) and the divisor of the fps figure.
StatusInterval == 5

\* self.motion_count / 5.0 if self.motion_count > 0 else 0
FpsOf(count) == IF count > 0 THEN Norm(count, StatusInterval) ELSE R(0)

\* The line _status_monitor logs: "no_clients", or "clients" with its fps.
NoClientsStatus == [kind |-> "no_clients", fps |-> R(0)]
ClientsStatus(f) == [kind |-> "clients", fps |-> f]

\* self.avg_latency * 0.9 + latency * 0.1
Ema(avg, latency) == RAdd(RMul(avg, <<9, 10>>), RMul(latency, <<1, 10>>))

\* An add that is skipped.
RegisterSkipped(clients, ip) == clients

\* self.connected_clients.add(client_ip)
Register(clients, ip) == clients \cup {ip}

\* A discard that empties the registry.
UnregisterAll(clients, ip) == {}

\* self.connected_clients.discard(client_ip)
Unregister(clients, ip) == clients \ {ip}

\* self.socket.close() when self.socket is set
CloseSocket(s) == IF s = "none" THEN "none" ELSE "closed"

KnownTags == {"MOTION:", "CONNECT:", "DISCONNECT:", "HEARTBEAT:"}

\* ---------------------------------------------------------------- events

\* The observable effect of one step: the datagram it handled (and whether
\* pyautogui.moveTo was called for it), the status line it logged, the setter
\* it ran with its argument, or the transport error it logged.
Ev(op) == [op |-> op, data |-> EmptyData, ip |-> "", moved |-> FALSE,
           line |-> NoClientsStatus, arg |-> R(0)]
NoEvent == Ev("none")
PacketEvent(data, ip, moved) ==
    [Ev("packet") EXCEPT !.data = data, !.ip = ip, !.moved = moved]
StatusEvent(line) == [Ev("status") EXCEPT !.line = line]
SetterEvent(op, v) == [Ev(op) EXCEPT !.arg = v]
ErrorEvent == Ev("recv_error")

\* ------------------------------------------------------------ get_status

\* A call of get_status: where the caller is ("idle", "ips", "config",
\* "running", "returned") and the entries of the dict evaluated so far.
NoCall == [pc |-> "idle", connected_clients |-> 0, client_ips |-> {},
           sensitivity |-> R(0), smoothing_factor |-> R(0),
           avg_latency_ms |-> R(0), is_running |-> FALSE]

\* list(self.connected_clients): one entry per member, held as their set.
ListOf(clients) == clients

\* ------------------------------------------------------- groups of variables

config == <<sensitivity, smoothing_factor>>
filter == <<smoothed_dx, smoothed_dy>>
metrics == <<last_motion_time, motion_count, avg_latency>>
host == <<screen, cursor>>
threads == <<main_pc, listen_pc, monitor_pc>>
listen_locals == <<disc_ip, count_tmp>>

\* ----------------------------------------------------------------- Init

\* __init__, lines 24-45, on a host of `hosts`, with `budget` well-formed
\* MOTION packets to come.
Constructed(hosts, budget) ==
    /\ socket = "none"
    /\ is_running = FALSE
    /\ connected_clients = {}
    /\ sensitivity = R(1)
    /\ smoothing_factor = <<7, 10>>
    /\ smoothed_dx = R(0)
    /\ smoothed_dy = R(0)
    /\ last_motion_time = 0
    /\ motion_count = 0
    /\ avg_latency = R(0)
    /\ \E h \in hosts : screen = h[1] /\ cursor = h[2]
    /\ main_pc = "start"
    /\ listen_pc = "idle"
    /\ monitor_pc = "idle"
    /\ disc_ip = ""
    /\ count_tmp = 0
    /\ motions_left = budget
    /\ status_call = NoCall
    /\ event = NoEvent

\* ------------------------------------------------------------- setters

\* set_sensitivity, lines 205-208
SetSensitivity(v) ==
    /\ sensitivity' = ClampSensitivity(v)
    /\ event' = SetterEvent("set_sensitivity", v)
    /\ UNCHANGED <<status_call, socket, is_running, connected_clients, smoothing_factor, filter,
                   metrics, host, threads, listen_locals, motions_left>>

\* set_smoothing, lines 210-213
SetSmoothing(v) ==
    /\ smoothing_factor' = ClampSmoothing(v)
    /\ event' = SetterEvent("set_smoothing", v)
    /\ UNCHANGED <<status_call, socket, is_running, connected_clients, sensitivity, filter,
                   metrics, host, threads, listen_locals, motions_left>>

\* ------------------------------------------------------------- start

\* start(), lines 50-63: the bind succeeds; both threads are started.
StartOk ==
    /\ main_pc = "start"
    /\ socket' = "open"
    /\ is_running' = TRUE
    /\ listen_pc' = "loop"
    /\ monitor_pc' = "loop"
    /\ main_pc' = "wait"
    /\ event' = NoEvent
    /\ UNCHANGED <<status_call, connected_clients, config, filter, metrics, host, listen_locals,
                   motions_left>>

\* ----------------------------------------------------- whole handlers
\* One iteration of _listen_loop that receives a datagram (lines 88-92 and all
\* of _process_packet), and one iteration of _status_monitor (lines 185-200),
\* each run to completion.

Receiving == listen_pc = "loop" /\ is_running /\ socket = "open"

\* The filtered delta of lines 132-143 for one axis.
Filtered(prev, field) ==
    Smooth(prev, Scale(FloatOf(field), sensitivity), smoothing_factor)

\* _move_cursor, lines 166-178: the position moveTo is called with.
Target(fdx, fdy) == <<MoveTarget(cursor[1], fdx, screen[1]),
                      MoveTarget(cursor[2], fdy, screen[2])>>

\* A well-formed MOTION: lines 102-110 and _handle_motion_data, lines 129-155.
\* pyautogui may raise in _move_cursor (actuated = FALSE), which lines 180-181
\* catch and log.
ProcessMotion(data, ip, actuated, gap) ==
    /\ Receiving
    /\ WellFormedMotion(data)
    /\ motions_left > 0
    /\ motions_left' = motions_left - 1
    /\ connected_clients' = Register(connected_clients, ip)
    /\ smoothed_dx' = Filtered(smoothed_dx, data.fields[1])
    /\ smoothed_dy' = Filtered(smoothed_dy, data.fields[2])
    /\ cursor' = IF actuated THEN Target(smoothed_dx', smoothed_dy') ELSE cursor
    /\ motion_count' = motion_count + 1
    /\ avg_latency' = IF motion_count' > 1 THEN Ema(avg_latency, R(gap))
                      ELSE avg_latency
    /\ last_motion_time' = last_motion_time + gap
    /\ event' = PacketEvent(data, ip, actuated)
    /\ UNCHANGED <<status_call, socket, is_running, config, screen, threads, listen_locals>>

\* A MOTION whose fields do not parse: lines 102-110, 129-133, 157-158.
ProcessInvalidMotion(data, ip) ==
    /\ Receiving
    /\ Decodes(data) /\ StartsWith(data, "MOTION:") /\ ~MotionParses(data)
    /\ connected_clients' = Register(connected_clients, ip)
    /\ event' = PacketEvent(data, ip, FALSE)
    /\ UNCHANGED <<status_call, socket, is_running, config, filter, metrics, host, threads,
                   listen_locals, motions_left>>

\* CONNECT: lines 102-106, 111-112. HEARTBEAT: lines 102-106, 116-118.
ProcessContact(data, ip) ==
    /\ Receiving
    /\ Decodes(data)
    /\ StartsWith(data, "CONNECT:") \/ StartsWith(data, "HEARTBEAT:")
    /\ connected_clients' = Register(connected_clients, ip)
    /\ event' = PacketEvent(data, ip, FALSE)
    /\ UNCHANGED <<status_call, socket, is_running, config, filter, metrics, host, threads,
                   listen_locals, motions_left>>

\* DISCONNECT: lines 102-106, 113-115.
ProcessDisconnect(data, ip) ==
    /\ Receiving
    /\ Decodes(data) /\ StartsWith(data, "DISCONNECT:")
    /\ connected_clients' = Unregister(Register(connected_clients, ip), ip)
    /\ event' = PacketEvent(data, ip, FALSE)
    /\ UNCHANGED <<status_call, socket, is_running, config, filter, metrics, host, threads,
                   listen_locals, motions_left>>

\* No known tag: lines 102-106, 119-120.
ProcessUnknown(data, ip) ==
    /\ Receiving
    /\ Decodes(data)
    /\ \A tag \in KnownTags : ~StartsWith(data, tag)
    /\ connected_clients' = Register(connected_clients, ip)
    /\ event' = PacketEvent(data, ip, FALSE)
    /\ UNCHANGED <<status_call, socket, is_running, config, filter, metrics, host, threads,
                   listen_locals, motions_left>>

\* A decode failure that registers the sender all the same.
ProcessUndecodableRegisters(data, ip) ==
    /\ Receiving
    /\ data.kind = "bad_utf8"
    /\ connected_clients' = connected_clients \cup {ip}
    /\ event' = PacketEvent(data, ip, FALSE)
    /\ UNCHANGED <<status_call, socket, is_running, config, filter, metrics, host, threads,
                   listen_locals, motions_left>>

\* A decode failure that ends the ingestion thread.
ProcessUndecodableFatal(data, ip) ==
    /\ Receiving
    /\ data.kind = "bad_utf8"
    /\ listen_pc' = "exited"
    /\ event' = PacketEvent(data, ip, FALSE)
    /\ UNCHANGED <<status_call, socket, is_running, connected_clients, config, filter, metrics,
                   host, main_pc, monitor_pc, listen_locals, motions_left>>

\* Not UTF-8: line 102 raises, lines 122-123 log.
ProcessUndecodable(data, ip) ==
    /\ Receiving
    /\ data.kind = "bad_utf8"
    /\ event' = PacketEvent(data, ip, FALSE)
    /\ UNCHANGED <<status_call, socket, is_running, connected_clients, config, filter, metrics,
                   host, threads, listen_locals, motions_left>>

\* An empty datagram: line 91 skips _process_packet.
ReceiveEmpty(data, ip) ==
    /\ Receiving
    /\ data.kind = "empty"
    /\ event' = NoEvent
    /\ UNCHANGED <<status_call, socket, is_running, connected_clients, config, filter, metrics,
                   host, threads, listen_locals, motions_left>>

\* A reset that keeps the count.
ResetKeeps(count) == count

\* The value line 198 stores.
ResetCount(count) == 0

\* A tick with clients: lines 185-198.
TickClients ==
    /\ monitor_pc = "loop" /\ is_running
    /\ connected_clients # {}
    /\ event' = StatusEvent(ClientsStatus(FpsOf(motion_count)))
    /\ motion_count' = ResetCount(motion_count)
    /\ UNCHANGED <<status_call, socket, is_running, connected_clients, config, filter,
                   last_motion_time, avg_latency, host, threads, listen_locals,
                   motions_left>>

\* A tick without clients: lines 185-189, 199-200.
TickNoClients ==
    /\ monitor_pc = "loop" /\ is_running
    /\ connected_clients = {}
    /\ event' = StatusEvent(NoClientsStatus)
    /\ UNCHANGED <<status_call, socket, is_running, connected_clients, config, filter, metrics,
                   host, threads, listen_locals, motions_left>>

\* Spec: the wire protocol and the registry. Every payload from both senders,
\* status ticks, the default configuration, handlers run to completion.
Next ==
    \/ StartOk
    \/ \E data \in Payloads, ip \in IPs, actuated \in BOOLEAN, gap \in Gaps :
         ProcessMotion(data, ip, actuated, gap)
    \/ \E data \in Payloads, ip \in IPs : ProcessInvalidMotion(data, ip)
    \/ \E data \in Payloads, ip \in IPs : ProcessContact(data, ip)
    \/ \E data \in Payloads, ip \in IPs : ProcessDisconnect(data, ip)
    \/ \E data \in Payloads, ip \in IPs : ProcessUnknown(data, ip)
    \/ \E data \in Payloads, ip \in IPs : ProcessUndecodable(data, ip)
    \/ \E data \in Payloads, ip \in IPs : ReceiveEmpty(data, ip)
    \/ TickClients
    \/ TickNoClients

Init == Constructed({<<<<800, 600>>, <<0, 0>>>>}, MaxMotions)

Spec == Init /\ [][Next]_vars

\* FilterSpec: the filter, the actuator and the setters. Setter calls at any
\* time, MOTION packets from one sender, every host, a pointer that obeys.
FilterPayloads == {d \in Payloads : StartsWith(d, "MOTION:")}

FilterNext ==
    \/ StartOk
    \/ \E v \in SensitivityArgs : SetSensitivity(v)
    \/ \E v \in SmoothingArgs : SetSmoothing(v)
    \/ \E data \in FilterPayloads : ProcessMotion(data, "1.2.3.4", TRUE, 1)
    \/ \E data \in FilterPayloads : ProcessInvalidMotion(data, "1.2.3.4")
    \/ TickClients
    \/ TickNoClients

FilterInit == Constructed(Hosts, MaxFilterMotions)

FilterSpec == FilterInit /\ [][FilterNext]_vars

\* DecaySpec: the filter under runs of samples that include the zero sample,
\* with smoothing factors 0, 0.25, 0.7 and 1 set at any time; one sender, one
\* host, a pointer that obeys.
DecayPayloads ==
    { Text("MOTION:", <<"0", "0">>),
      Text("MOTION:", <<"10", "0">>),
      Text("MOTION:", <<"-50", "-50">>) }

DecayArgs == {R(-1), <<1, 4>>, <<7, 10>>, R(2)}

DecayNext ==
    \/ StartOk
    \/ \E v \in DecayArgs : SetSmoothing(v)
    \/ \E data \in DecayPayloads : ProcessMotion(data, "1.2.3.4", TRUE, 1)

DecayInit == Constructed({<<<<800, 600>>, <<0, 0>>>>}, MaxDecayMotions)

DecaySpec == DecayInit /\ [][DecayNext]_vars

\* ------------------------------------------------------------ get_status
\* get_status called from a thread of its own: the dict display of lines
\* 217-224 evaluates its entries one after the other.

\* line 218: len(self.connected_clients)
GetStatusCount ==
    /\ status_call.pc \in {"idle", "returned"}
    /\ status_call' = [NoCall EXCEPT !.pc = "ips",
                                     !.connected_clients = Cardinality(connected_clients)]
    /\ event' = NoEvent
    /\ UNCHANGED <<socket, is_running, connected_clients, config, filter, metrics,
                   host, threads, listen_locals, motions_left>>

\* line 219: list(self.connected_clients)
GetStatusIps ==
    /\ status_call.pc = "ips"
    /\ status_call' = [status_call EXCEPT !.pc = "config",
                                          !.client_ips = ListOf(connected_clients)]
    /\ event' = NoEvent
    /\ UNCHANGED <<socket, is_running, connected_clients, config, filter, metrics,
                   host, threads, listen_locals, motions_left>>

\* lines 220-222: sensitivity, smoothing_factor, avg_latency * 1000
GetStatusConfig ==
    /\ status_call.pc = "config"
    /\ status_call' = [status_call EXCEPT !.pc = "running",
                                          !.sensitivity = sensitivity,
                                          !.smoothing_factor = smoothing_factor,
                                          !.avg_latency_ms = RMul(avg_latency, R(1000))]
    /\ event' = NoEvent
    /\ UNCHANGED <<socket, is_running, connected_clients, config, filter, metrics,
                   host, threads, listen_locals, motions_left>>

\* lines 223-224: is_running, and the dict is returned
GetStatusReturn ==
    /\ status_call.pc = "running"
    /\ status_call' = [status_call EXCEPT !.pc = "returned",
                                          !.is_running = is_running]
    /\ event' = NoEvent
    /\ UNCHANGED <<socket, is_running, connected_clients, config, filter, metrics,
                   host, threads, listen_locals, motions_left>>

\* ------------------------------------------------------------ the threads
\* The same code step by step: a thread's step ends where it next reads or
\* writes state another thread also touches.

\* A start that sets is_running before the bind raises.
StartFailRunning ==
    /\ main_pc = "start"
    /\ socket' = "created"
    /\ is_running' = TRUE
    /\ main_pc' = "except_stop_flag"
    /\ event' = NoEvent
    /\ UNCHANGED <<status_call, connected_clients, config, filter, metrics, host,
                   listen_pc, monitor_pc, listen_locals, motions_left>>

\* start(), lines 50-51 and 75-77: the socket is created, bind raises, and the
\* handler calls stop().
StartFail ==
    /\ main_pc = "start"
    /\ socket' = "created"
    /\ main_pc' = "except_stop_flag"
    /\ event' = NoEvent
    /\ UNCHANGED <<status_call, is_running, connected_clients, config, filter, metrics, host,
                   listen_pc, monitor_pc, listen_locals, motions_left>>

\* start(), lines 69-73: the wait loop ends. Only stop() clears is_running and
\* main calls stop() after the loop, so the loop ends with the
\* KeyboardInterrupt; main's finally (line 249) then calls stop().
WaitInterrupted ==
    /\ main_pc = "wait"
    /\ main_pc' = "finally_stop_flag"
    /\ event' = NoEvent
    /\ UNCHANGED <<status_call, socket, is_running, connected_clients, config, filter, metrics,
                   host, listen_pc, monitor_pc, listen_locals, motions_left>>

\* stop(), line 81
StopFlag ==
    /\ main_pc \in {"except_stop_flag", "finally_stop_flag"}
    /\ is_running' = FALSE
    /\ main_pc' = IF main_pc = "except_stop_flag" THEN "except_stop_close"
                  ELSE "finally_stop_close"
    /\ event' = NoEvent
    /\ UNCHANGED <<status_call, socket, connected_clients, config, filter, metrics, host,
                   listen_pc, monitor_pc, listen_locals, motions_left>>

\* stop(), lines 82-84; after the stop() of start's handler, start returns and
\* main's finally calls stop() again.
StopClose ==
    /\ main_pc \in {"except_stop_close", "finally_stop_close"}
    /\ socket' = CloseSocket(socket)
    /\ main_pc' = IF main_pc = "except_stop_close" THEN "finally_stop_flag" ELSE "done"
    /\ event' = NoEvent
    /\ UNCHANGED <<status_call, is_running, connected_clients, config, filter, metrics, host,
                   listen_pc, monitor_pc, listen_locals, motions_left>>

\* _listen_loop, line 88: the loop test holds.
ListenEnter ==
    /\ listen_pc = "loop"
    /\ is_running
    /\ listen_pc' = "recv"
    /\ event' = NoEvent
    /\ UNCHANGED <<status_call, socket, is_running, connected_clients, config, filter, metrics,
                   host, main_pc, monitor_pc, listen_locals, motions_left>>

\* A loop that does not test is_running: the thread receives again.
ListenNeverExits ==
    /\ listen_pc = "loop"
    /\ ~is_running
    /\ listen_pc' = "recv"
    /\ event' = NoEvent
    /\ UNCHANGED <<status_call, socket, is_running, connected_clients, config, filter, metrics,
                   host, main_pc, monitor_pc, listen_locals, motions_left>>

\* _listen_loop, line 88: the loop test fails and the thread ends.
ListenExit ==
    /\ listen_pc = "loop"
    /\ ~is_running
    /\ listen_pc' = "exited"
    /\ event' = NoEvent
    /\ UNCHANGED <<status_call, socket, is_running, connected_clients, config, filter, metrics,
                   host, main_pc, monitor_pc, listen_locals, motions_left>>

\* lines 90, 93-94: recvfrom raises socket.timeout (the 1 s poll).
RecvTimeout ==
    /\ listen_pc = "recv"
    /\ listen_pc' = "loop"
    /\ event' = NoEvent
    /\ UNCHANGED <<status_call, socket, is_running, connected_clients, config, filter, metrics,
                   host, main_pc, monitor_pc, listen_locals, motions_left>>

\* Where _listen_loop goes after the handler of lines 95-97.
AfterRecvError == "loop"

\* lines 90, 95-97: recvfrom raises another exception (the socket was closed,
\* or the host reports an error on the open socket); the handler logs it when
\* is_running.
RecvError ==
    /\ listen_pc = "recv"
    /\ listen_pc' = AfterRecvError
    /\ event' = IF is_running THEN ErrorEvent ELSE NoEvent
    /\ UNCHANGED <<status_call, socket, is_running, connected_clients, config, filter, metrics,
                   host, main_pc, monitor_pc, listen_locals, motions_left>>

\* lines 90-92 with an empty datagram (line 91 skips it) or with bytes that
\* are not UTF-8 (line 102 raises, lines 122-123 log).
RecvDropped(data, ip) ==
    /\ listen_pc = "recv"
    /\ socket = "open"
    /\ ~Decodes(data)
    /\ listen_pc' = "loop"
    /\ event' = IF data.kind = "empty" THEN NoEvent ELSE PacketEvent(data, ip, FALSE)
    /\ UNCHANGED <<status_call, socket, is_running, connected_clients, config, filter, metrics,
                   host, main_pc, monitor_pc, listen_locals, motions_left>>

\* lines 90-92, 102-123 for a text that is neither a well-formed MOTION nor a
\* DISCONNECT: the sender is added and nothing else changes.
RecvText(data, ip) ==
    /\ listen_pc = "recv"
    /\ socket = "open"
    /\ Decodes(data)
    /\ ~WellFormedMotion(data)
    /\ ~StartsWith(data, "DISCONNECT:")
    /\ connected_clients' = Register(connected_clients, ip)
    /\ listen_pc' = "loop"
    /\ event' = PacketEvent(data, ip, FALSE)
    /\ UNCHANGED <<status_call, socket, is_running, config, filter, metrics, host, main_pc,
                   monitor_pc, listen_locals, motions_left>>

\* lines 90-92, 102-106, 113-114: a DISCONNECT arrives; its sender is added.
RecvDisconnect(data, ip) ==
    /\ listen_pc = "recv"
    /\ socket = "open"
    /\ Decodes(data)
    /\ StartsWith(data, "DISCONNECT:")
    /\ connected_clients' = Register(connected_clients, ip)
    /\ disc_ip' = ip
    /\ listen_pc' = "discard"
    /\ event' = PacketEvent(data, ip, FALSE)
    /\ UNCHANGED <<status_call, socket, is_running, config, filter, metrics, host, main_pc,
                   monitor_pc, count_tmp, motions_left>>

\* line 115
Discard ==
    /\ listen_pc = "discard"
    /\ connected_clients' = Unregister(connected_clients, disc_ip)
    /\ disc_ip' = ""
    /\ listen_pc' = "loop"
    /\ event' = NoEvent
    /\ UNCHANGED <<status_call, socket, is_running, config, filter, metrics, host, main_pc,
                   monitor_pc, count_tmp, motions_left>>

\* lines 90-92, 102-110, 129-146: a well-formed MOTION arrives; the sender is
\* added, the filter updated and _move_cursor run.
RecvMotion(data, ip, actuated) ==
    /\ listen_pc = "recv"
    /\ socket = "open"
    /\ WellFormedMotion(data)
    /\ motions_left > 0
    /\ motions_left' = motions_left - 1
    /\ connected_clients' = Register(connected_clients, ip)
    /\ smoothed_dx' = Filtered(smoothed_dx, data.fields[1])
    /\ smoothed_dy' = Filtered(smoothed_dy, data.fields[2])
    /\ cursor' = IF actuated THEN Target(smoothed_dx', smoothed_dy') ELSE cursor
    /\ listen_pc' = "count_load"
    /\ event' = PacketEvent(data, ip, actuated)
    /\ UNCHANGED <<status_call, socket, is_running, config, metrics, screen, main_pc, monitor_pc,
                   listen_locals>>

\* line 150, "self.motion_count += 1": the load
CountLoad ==
    /\ listen_pc = "count_load"
    /\ count_tmp' = motion_count
    /\ listen_pc' = "count_store"
    /\ event' = NoEvent
    /\ UNCHANGED <<status_call, socket, is_running, connected_clients, config, filter, metrics,
                   host, main_pc, monitor_pc, disc_ip, motions_left>>

\* A store that counts the packet twice.
CountStoreTwice ==
    /\ listen_pc = "count_store"
    /\ motion_count' = count_tmp + 2
    /\ count_tmp' = 0
    /\ listen_pc' = "latency"
    /\ event' = NoEvent
    /\ UNCHANGED <<status_call, socket, is_running, connected_clients, config, filter,
                   last_motion_time, avg_latency, host, main_pc, monitor_pc,
                   disc_ip, motions_left>>

\* line 150, "self.motion_count += 1": the store
CountStore ==
    /\ listen_pc = "count_store"
    /\ motion_count' = count_tmp + 1
    /\ count_tmp' = 0
    /\ listen_pc' = "latency"
    /\ event' = NoEvent
    /\ UNCHANGED <<status_call, socket, is_running, connected_clients, config, filter,
                   last_motion_time, avg_latency, host, main_pc, monitor_pc,
                   disc_ip, motions_left>>

\* lines 149, 151-155: current_time is the previous reading plus the gap.
UpdateLatency(gap) ==
    /\ listen_pc = "latency"
    /\ avg_latency' = IF motion_count > 1 THEN Ema(avg_latency, R(gap))
                      ELSE avg_latency
    /\ last_motion_time' = last_motion_time + gap
    /\ listen_pc' = "loop"
    /\ event' = NoEvent
    /\ UNCHANGED <<status_call, socket, is_running, connected_clients, config, filter,
                   motion_count, host, main_pc, monitor_pc, listen_locals,
                   motions_left>>

\* _status_monitor, lines 185-187: the loop test holds; the thread sleeps.
MonitorSleep ==
    /\ monitor_pc = "loop"
    /\ is_running
    /\ monitor_pc' = "tick"
    /\ event' = NoEvent
    /\ UNCHANGED <<status_call, socket, is_running, connected_clients, config, filter, metrics,
                   host, main_pc, listen_pc, listen_locals, motions_left>>

\* line 185: the loop test fails and the thread ends.
MonitorExit ==
    /\ monitor_pc = "loop"
    /\ ~is_running
    /\ monitor_pc' = "exited"
    /\ event' = NoEvent
    /\ UNCHANGED <<status_call, socket, is_running, connected_clients, config, filter, metrics,
                   host, main_pc, listen_pc, listen_locals, motions_left>>

\* line 189, and lines 199-200 when the registry is empty.
MonitorCheck ==
    /\ monitor_pc = "tick"
    /\ IF connected_clients # {}
         THEN monitor_pc' = "report" /\ event' = NoEvent
         ELSE monitor_pc' = "loop" /\ event' = StatusEvent(NoClientsStatus)
    /\ UNCHANGED <<status_call, socket, is_running, connected_clients, config, filter, metrics,
                   host, main_pc, listen_pc, listen_locals, motions_left>>

\* lines 191-195
MonitorReport ==
    /\ monitor_pc = "report"
    /\ event' = StatusEvent(ClientsStatus(FpsOf(motion_count)))
    /\ monitor_pc' = "reset"
    /\ UNCHANGED <<status_call, socket, is_running, connected_clients, config, filter, metrics,
                   host, main_pc, listen_pc, listen_locals, motions_left>>

\* line 198
MonitorReset ==
    /\ monitor_pc = "reset"
    /\ motion_count' = ResetCount(motion_count)
    /\ monitor_pc' = "loop"
    /\ event' = NoEvent
    /\ UNCHANGED <<status_call, socket, is_running, connected_clients, config, filter,
                   last_motion_time, avg_latency, host, main_pc, listen_pc,
                   listen_locals, motions_left>>

\* ThreadSpec: main, _listen_loop and _status_monitor interleaved step by
\* step, from construction to the end of all three, with the default
\* configuration, a pointer that obeys and the payloads of ThreadPayloads.
MainStep == StartOk \/ StartFail \/ WaitInterrupted \/ StopFlag \/ StopClose

ThreadPayloads ==
    { Text("MOTION:", <<"10", "0">>),
      Text("MOTION:", <<"abc", "1">>),
      Text("CONNECT:", <<"hello">>),
      Text("DISCONNECT:", <<"bye">>),
      BadUtf8,
      EmptyData }

ListenStep ==
    \/ ListenEnter \/ ListenExit \/ RecvTimeout \/ RecvError
    \/ \E data \in ThreadPayloads, ip \in IPs : RecvDropped(data, ip)
    \/ \E data \in ThreadPayloads, ip \in IPs : RecvText(data, ip)
    \/ \E data \in ThreadPayloads, ip \in IPs : RecvDisconnect(data, ip)
    \/ \E data \in ThreadPayloads, ip \in IPs : RecvMotion(data, ip, TRUE)
    \/ Discard \/ CountLoad \/ CountStore
    \/ \E gap \in Gaps : UpdateLatency(gap)

MonitorStep ==
    MonitorSleep \/ MonitorExit \/ MonitorCheck \/ MonitorReport \/ MonitorReset

ThreadNext == MainStep \/ ListenStep \/ MonitorStep

ThreadInit == Constructed({<<<<800, 600>>, <<0, 0>>>>}, MaxThreadMotions)

ThreadSpec == ThreadInit /\ [][ThreadNext]_vars

\* Each thread that can take a step eventually takes one: recvfrom returns
\* within its timeout, sleep returns, and main runs stop() to its end.
ThreadFair ==
    /\ ThreadSpec
    /\ WF_vars(ListenStep)
    /\ WF_vars(MonitorStep)
    /\ WF_vars(StopFlag \/ StopClose)

\* StatusSpec: get_status called, any number of times, from a thread of its
\* own while main and _listen_loop run step by step.
GetStatusStep ==
    GetStatusCount \/ GetStatusIps \/ GetStatusConfig \/ GetStatusReturn

StatusNext == MainStep \/ ListenStep \/ GetStatusStep

StatusInit == Constructed({<<<<800, 600>>, <<0, 0>>>>}, MaxStatusMotions)

StatusSpec == StatusInit /\ [][StatusNext]_vars

\* ------------------------------------------------------------------ claims

\* The bound of [lo, hi] nearest to v, or v itself when it lies inside.
Nearest(v, lo, hi) == IF RLt(v, lo) THEN lo ELSE IF RLt(hi, v) THEN hi ELSE v

IsSetter(e) == e.op \in {"set_sensitivity", "set_smoothing"}

ConfigInRange ==
    /\ RLe(<<1, 10>>, sensitivity) /\ RLe(sensitivity, R(5))
    /\ RLe(R(0), smoothing_factor) /\ RLe(smoothing_factor, R(1))

SetterStores ==
    /\ event'.op = "set_sensitivity" =>
         /\ sensitivity' = Nearest(event'.arg, <<1, 10>>, R(5))
         /\ smoothing_factor' = smoothing_factor
    /\ event'.op = "set_smoothing" =>
         /\ smoothing_factor' = Nearest(event'.arg, R(0), R(1))
         /\ sensitivity' = sensitivity
    /\ ~IsSetter(event') => UNCHANGED config

\* C1: sensitivity stays in [0.1, 5.0] and smoothing_factor in [0, 1] in every
\* state; a setter stores its argument when it is in range and the nearest
\* bound otherwise; no packet handler and no status tick changes either field.
C1_ConfigClamped == []ConfigInRange /\ [][SetterStores]_vars

\* C1 witness: after both MOTION packets, set_sensitivity was called with a
\* value above 5.0 and the upper bound is stored.
C1_Witness ==
    /\ event.op = "set_sensitivity"
    /\ RLt(R(5), event.arg)
    /\ sensitivity = R(5)
    /\ motions_left = 0

MovedBy(e) == e.op = "packet" /\ e.moved

\* C2: every position moveTo is called with lies on the screen, and a cursor
\* at (0,0) with a negative filtered delta is moved to (0,0).
C2_MoveWithinScreen ==
    [][MovedBy(event') =>
         /\ 0 <= cursor'[1] /\ cursor'[1] <= screen[1] - 1
         /\ 0 <= cursor'[2] /\ cursor'[2] <= screen[2] - 1
         /\ (cursor = <<0, 0>> /\ RLt(smoothed_dx', R(0)) /\ RLt(smoothed_dy', R(0)))
              => cursor' = <<0, 0>>]_vars

\* C2 witness: on the 800x600 screen a move with a negative filtered delta
\* left the cursor at (0,0).
C2_Witness ==
    /\ MovedBy(event)
    /\ screen = <<800, 600>>
    /\ cursor = <<0, 0>>
    /\ RLt(smoothed_dx, R(0)) /\ RLt(smoothed_dy, R(0))

Handled(e, tag) == e.op = "packet" /\ Decodes(e.data) /\ StartsWith(e.data, tag)
HandledMotion(e) == e.op = "packet" /\ WellFormedMotion(e.data)
HandledInvalidMotion(e) == Handled(e, "MOTION:") /\ ~MotionParses(e.data)
HandledUnknown(e) ==
    e.op = "packet" /\ Decodes(e.data) /\ \A tag \in KnownTags : ~StartsWith(e.data, tag)

RegisteredAfterPacket ==
    /\ (Handled(event, "CONNECT:") \/ Handled(event, "HEARTBEAT:") \/ HandledMotion(event))
         => event.ip \in connected_clients
    /\ Handled(event, "DISCONNECT:") => event.ip \notin connected_clients

RemovedOnlyByDisconnect ==
    \A a \in IPs :
        (a \in connected_clients /\ a \notin connected_clients')
            => Handled(event', "DISCONNECT:") /\ event'.ip = a

\* C3: after a CONNECT, HEARTBEAT or well-formed MOTION from a, a is in the
\* registry; after a DISCONNECT from a, a is not; and an address leaves the
\* registry only by a DISCONNECT from that same address.
C3_RegistryMembership == []RegisteredAfterPacket /\ [][RemovedOnlyByDisconnect]_vars

\* C3 witness: a DISCONNECT from 1.2.3.4 was processed and the other sender is
\* still registered.
C3_Witness ==
    /\ Handled(event, "DISCONNECT:")
    /\ event.ip = "1.2.3.4"
    /\ connected_clients = {"5.6.7.8"}

NothingMoved == ~event'.moved /\ cursor' = cursor

SmoothedFrom(prev, e, axis) ==
    RAdd(RMul(smoothing_factor, prev),
         RMul(RSub(R(1), smoothing_factor),
              RMul(FloatOf(e.data.fields[axis]), sensitivity)))

\* C10: when the move of a well-formed MOTION fails, no move is made, the
\* filter state is updated with the sample all the same, the controller stays
\* running and the ingestion thread is back at its loop, ready to receive.
C10_ActuationFailureContained ==
    [][(HandledMotion(event') /\ ~event'.moved) =>
         /\ cursor' = cursor
         /\ smoothed_dx' = SmoothedFrom(smoothed_dx, event', 1)
         /\ smoothed_dy' = SmoothedFrom(smoothed_dy, event', 2)
         /\ is_running' /\ socket' = "open" /\ listen_pc' = "loop"]_vars

\* C10 witness: a MOTION whose move failed left a non-zero filter state and
\* the cursor where it was, and a later packet was still to come.
C10_Witness ==
    /\ HandledMotion(event) /\ ~event.moved
    /\ smoothed_dx # R(0)
    /\ cursor = <<0, 0>>
    /\ motions_left > 0
    /\ is_running

\* C6 as claimed: once the ingestion thread has logged a transport error
\* while the controller is running, it ends instead of receiving again.
C6_TransportErrorFatal ==
    [][(event.op = "recv_error" /\ is_running /\ listen_pc = "loop")
         => listen_pc' # "recv"]_vars

StopInvoked == main_pc = "finally_stop_flag" /\ is_running

Stopped ==
    /\ ~is_running
    /\ socket = "closed"
    /\ main_pc = "done"
    /\ listen_pc = "exited"
    /\ monitor_pc = "exited"

\* is_running is set only by start().
NoRestart == (~is_running /\ is_running') => main_pc = "start"

\* C7: once stop() is invoked on the running controller, is_running is
\* cleared, the socket closed and, under fair scheduling, the ingestion thread,
\* the status thread and the control loop all end, wherever the ingestion
\* thread was; is_running is not set again other than by start().
C7_StopTerminates == (StopInvoked ~> Stopped) /\ [][NoRestart]_vars

\* C7 witness: stop() cleared is_running while the ingestion thread was
\* between the load and the store of a MOTION's count.
C7_Witness ==
    /\ main_pc = "finally_stop_close"
    /\ ~is_running
    /\ listen_pc = "count_store"

\* C8 as claimed: motion_count is updated under mutual exclusion, so the count
\* stored by "motion_count += 1" is one more than the count it replaces and a
\* reset to zero is never overwritten from a count loaded before the reset.
C8_NoLostUpdate ==
    [][(listen_pc = "count_store" /\ listen_pc' = "latency")
         => motion_count' = motion_count + 1]_vars

TickLeaves == UNCHANGED <<connected_clients, filter, config>>

TickEffect ==
    /\ (monitor_pc = "tick" /\ monitor_pc' # "tick") =>
         /\ IF connected_clients # {}
              THEN monitor_pc' = "report"
              ELSE event' = StatusEvent(NoClientsStatus) /\ monitor_pc' = "loop"
         /\ UNCHANGED <<motion_count, avg_latency>>
         /\ TickLeaves
    /\ (monitor_pc = "report" /\ monitor_pc' # "report") =>
         /\ event'.op = "status"
         /\ event'.line.kind = "clients"
         /\ RMul(event'.line.fps, R(StatusInterval)) = R(motion_count)
         /\ UNCHANGED <<motion_count, avg_latency>>
         /\ TickLeaves
    /\ (monitor_pc = "reset" /\ monitor_pc' # "reset") =>
         /\ motion_count' = 0
         /\ avg_latency' = avg_latency
         /\ TickLeaves

\* C9: a tick with a non-empty registry reports fps = motion_count / 5 and
\* resets motion_count to zero, leaving avg_latency; a tick with an empty
\* registry logs "no clients" and leaves both; either way the registry, the
\* filter state, sensitivity and smoothing_factor are unchanged.
C9_TickEffect == [][TickEffect]_vars

\* C9 witness: a tick has reported the two MOTION samples counted (fps 2/5)
\* and is about to reset the count, with a latency average already formed.
C9_Witness ==
    /\ monitor_pc = "reset"
    /\ event.op = "status"
    /\ event.line = ClientsStatus(<<2, 5>>)
    /\ motion_count = 2
    /\ avg_latency # R(0)

\* A packet whose handling ended in a logged, recoverable error: bytes that are
\* not UTF-8, malformed MOTION fields, an unknown text, or a move that failed.
RecoverableError(e) ==
    /\ e.op = "packet"
    /\ \/ e.data.kind = "bad_utf8"
       \/ HandledInvalidMotion(e)
       \/ HandledUnknown(e)
       \/ HandledMotion(e) /\ ~e.moved

StillReceiving == is_running /\ socket = "open" /\ listen_pc = "loop"

\* A well-formed MOTION handled right after a recoverable error is handled as
\* any other: filter updated with the sample, cursor moved by the filtered
\* delta, sample counted.
MotionAfterError ==
    (RecoverableError(event) /\ HandledMotion(event') /\ event'.moved) =>
        /\ smoothed_dx' = SmoothedFrom(smoothed_dx, event', 1)
        /\ smoothed_dy' = SmoothedFrom(smoothed_dy, event', 2)
        /\ cursor' = Target(smoothed_dx', smoothed_dy')
        /\ motion_count' = motion_count + 1

\* C11: after a packet that is not UTF-8, a malformed MOTION, an unknown text
\* or a failed move, the controller is running and the ingestion thread is at
\* its loop with the socket open, which is all a next packet needs to be
\* received; and a well-formed MOTION handled next updates the filter with
\* its sample and moves the cursor by the filtered delta.
C11_RecoverableErrorsContained ==
    /\ [](RecoverableError(event) => StillReceiving)
    /\ [][MotionAfterError]_vars

\* C11 witness: bytes that are not UTF-8 were dropped after one MOTION sample
\* was handled, with the ingestion thread ready for the next one.
C11_Witness ==
    /\ event.op = "packet" /\ event.data.kind = "bad_utf8"
    /\ motions_left = 1
    /\ smoothed_dx # R(0)
    /\ StillReceiving

\* The ingestion thread leaves position p in this step.
ListenLeaves(p) == listen_pc = p /\ listen_pc' # p

MotionPipeline ==
    /\ (ListenLeaves("recv") /\ HandledMotion(event')) =>
         /\ event'.ip \in connected_clients'
         /\ smoothed_dx' = SmoothedFrom(smoothed_dx, event', 1)
         /\ smoothed_dy' = SmoothedFrom(smoothed_dy, event', 2)
         /\ event'.moved
         /\ cursor' = Target(smoothed_dx', smoothed_dy')
         /\ UNCHANGED metrics
         /\ listen_pc' = "count_load"
    /\ ListenLeaves("count_load") =>
         /\ listen_pc' = "count_store"
         /\ count_tmp' = motion_count
         /\ UNCHANGED <<connected_clients, filter, cursor, metrics>>
    /\ ListenLeaves("count_store") =>
         /\ listen_pc' = "latency"
         /\ motion_count' = count_tmp + 1
         /\ UNCHANGED <<connected_clients, filter, cursor>>
    /\ ListenLeaves("latency") =>
         /\ listen_pc' = "loop"
         /\ last_motion_time' > last_motion_time
         /\ UNCHANGED <<connected_clients, filter, cursor, motion_count>>
    /\ (event'.moved \/ cursor' # cursor \/ filter' # filter) =>
         ListenLeaves("recv") /\ HandledMotion(event')
    /\ motion_count' > motion_count => ListenLeaves("count_store")

Floor(r) == r[1] \div r[2]

\* n is an integer nearest to r (either neighbour when r lies half-way).
IsNearestInt(n, r) == 2 * Abs(n * r[2] - r[1]) <= r[2]

\* x is clamp(round(c + d), 0, size - 1).
RoundedTarget(x, c, d, size) ==
    \E n \in {Floor(RAdd(R(c), d)), Floor(RAdd(R(c), d)) + 1} :
        /\ IsNearestInt(n, RAdd(R(c), d))
        /\ x = IntMax(0, IntMin(n, size - 1))

\* C13 as claimed: every move targets clamp(round(cx + fdx), 0, W-1) and
\* clamp(round(cy + fdy), 0, H-1), where (fdx, fdy) is the filtered delta.
C13_TargetRounded ==
    [][MovedBy(event') =>
         /\ RoundedTarget(cursor'[1], cursor[1], smoothed_dx', screen[1])
         /\ RoundedTarget(cursor'[2], cursor[2], smoothed_dy', screen[2])]_vars

\* The sample of event e on one axis, times the sensitivity.
ScaledSample(e, axis) == RMul(FloatOf(e.data.fields[axis]), sensitivity)

PassThrough ==
    (HandledMotion(event') /\ smoothing_factor = R(0)) =>
        /\ smoothed_dx' = ScaledSample(event', 1)
        /\ smoothed_dy' = ScaledSample(event', 2)
        /\ (/\ sensitivity = R(1)
            /\ event'.data.fields = <<"10", "0">>
            /\ cursor = <<100, 100>>
            /\ screen = <<1920, 1080>>)
             => (smoothed_dx' = R(10) /\ smoothed_dy' = R(0) /\ cursor' = <<110, 100>>)

\* C14: with smoothing_factor 0 the filter state after a MOTION sample is the
\* sample times the sensitivity, whatever the state before; with sensitivity
\* 1.0, MOTION:10,0 at (100,100) on a 1920x1080 screen gives (10,0) and a
\* move to (110,100).
C14_ZeroSmoothingPassThrough == [][PassThrough]_vars

\* C14 witness: after MOTION:-50,-50 was smoothed with 0.7 (cursor at
\* (85,85)), smoothing was set to 0 and MOTION:10,0 gave exactly (10,0).
C14_Witness ==
    /\ HandledMotion(event)
    /\ event.data.fields = <<"10", "0">>
    /\ smoothing_factor = R(0)
    /\ sensitivity = R(1)
    /\ smoothed_dx = R(10) /\ smoothed_dy = R(0)
    /\ cursor = <<95, 85>>
    /\ motions_left = 0

\* C15 as claimed: while smoothing_factor is 1, a well-formed MOTION sample
\* moves the cursor to the position it already has.
C15_FrozenAtOne ==
    [][(HandledMotion(event') /\ event'.moved /\ smoothing_factor = R(1))
         => cursor' = cursor]_vars

RAbs(r) == <<Abs(r[1]), r[2]>>

ZeroSample(e) == HandledMotion(e) /\ e.data.fields = <<"0", "0">>

\* One axis of the filter state under the zero sample.
DecaysOn(prev, next) ==
    /\ (RLt(R(0), smoothing_factor) /\ RLt(smoothing_factor, R(1))) =>
         /\ next = RMul(smoothing_factor, prev)
         /\ RLe(RAbs(next), RAbs(prev))
         /\ prev # R(0) => RLt(RAbs(next), RAbs(prev))
    /\ smoothing_factor = R(1) => next = prev
    /\ (next = prev /\ prev # R(0)) => smoothing_factor = R(1)

\* C16: under the zero sample with 0 < smoothing_factor < 1 each component of
\* the filter state becomes smoothing_factor times its previous value, never
\* larger in magnitude and strictly smaller while non-zero; a non-zero state
\* is left as it was only when smoothing_factor is 1.
C16_ZeroSampleDecay ==
    [][ZeroSample(event') =>
         /\ DecaysOn(smoothed_dx, smoothed_dx')
         /\ DecaysOn(smoothed_dy, smoothed_dy')]_vars

\* C16 witness: MOTION:10,0 then the zero sample twice under 0.7 left
\* 3 * 0.7 * 0.7 = 1.47 on the x axis.
C16_Witness ==
    /\ ZeroSample(event)
    /\ smoothing_factor = <<7, 10>>
    /\ smoothed_dx = <<147, 100>>
    /\ motions_left = 0

HandledUndecodable(e) == e.op = "packet" /\ e.data.kind = "bad_utf8"

\* C17: a payload that is not UTF-8 leaves the registry, the filter state, the
\* metrics, the configuration, the cursor, the socket and every thread as
\* they were, moves nothing, and the controller is running afterwards.
C17_UndecodableDropped ==
    [][HandledUndecodable(event') =>
         /\ UNCHANGED <<connected_clients, filter, metrics, config, host, socket,
                        is_running, threads>>
         /\ ~event'.moved
         /\ is_running']_vars

\* C17 witness: bytes that are not UTF-8 arrived from 5.6.7.8, which is not
\* registered, while another sender is and one sample has been counted.
C17_Witness ==
    /\ HandledUndecodable(event)
    /\ event.ip = "5.6.7.8"
    /\ connected_clients = {"1.2.3.4"}
    /\ motion_count = 1
    /\ is_running

\* start() has been left through its exception handler: the threads are
\* started only by a start() whose bind succeeded, and never return to "idle".
BindFailed == main_pc # "start" /\ listen_pc = "idle"

NeverRan ==
    /\ ~is_running
    /\ monitor_pc = "idle"
    /\ socket # "open"
    /\ connected_clients = {}
    /\ motion_count = 0
    /\ motions_left = MaxThreadMotions
    /\ filter = <<R(0), R(0)>>
    /\ event.op # "packet"

StoppedAfterBindFailure ==
    BindFailed /\ main_pc = "done" /\ ~is_running /\ socket = "closed"

\* C18: when the bind fails, is_running is never set, neither thread is
\* started and no packet is processed; the stop() of start's handler and the
\* stop() of main's finally both run, and leave the controller stopped with
\* its socket closed.
C18_BindFailureNeverRuns ==
    /\ [](BindFailed => NeverRan)
    /\ [][main_pc' = "except_stop_flag" => (main_pc = "start" /\ BindFailed')]_vars
    /\ (BindFailed ~> StoppedAfterBindFailure)

\* C18 witness: after the failed bind, main has run both calls of stop().
C18_Witness == StoppedAfterBindFailure

\* C19 as claimed: every well-formed MOTION sample but the first the process
\* receives sets avg_latency to 0.9 * avg_latency + 0.1 * gap, gap being the
\* time since the previous sample, whatever status ticks came in between.
C19_LatencyEveryGap ==
    [][(HandledMotion(event') /\ motions_left < MaxMotions) =>
         avg_latency' = Ema(avg_latency, R(last_motion_time' - last_motion_time))]_vars

Snapshot == status_call.pc = "returned"

SnapshotConsistent ==
    Snapshot => status_call.connected_clients = Cardinality(status_call.client_ips)

StatusReadOnly ==
    status_call' # status_call =>
        UNCHANGED <<socket, is_running, connected_clients, config, filter, metrics,
                    host, threads, listen_locals>>

\* C20 as claimed: get_status changes no controller state, and in every dict
\* it returns connected_clients is the number of entries of client_ips, which
\* holds each IP once, whatever the ingestion thread does during the call.
C20_SnapshotConsistent == []SnapshotConsistent /\ [][StatusReadOnly]_vars

====
